---- MODULE Spec2Model ----
(***************************************************************************)
(* A model of the pull-through cache handlers of oci-registry:            *)
(*   src/src/api.rs        manifest(), blob() and the blob fan-out         *)
(*   src/src/storage/s3.rs Repository::read / Repository::write            *)
(* One GET request is followed from its entry to the end of the tasks it  *)
(* spawns.  The object store is seen at the request's key.                *)
(*   Spec             a manifest or blob GET                               *)
(*   FairSpec         a blob GET on an empty key, under fair scheduling    *)
(*   DeleteSpec       a blob DELETE, then the next GET for the digest      *)
(*   DigestSpec       the digest check of blob(), over digest strings      *)
(*   BlobPathSpec     the blob key, over requests                          *)
(*   ManifestPathSpec split_image and the manifest key, over requests      *)
(*   RaceSpec         a blob GET next to another request's persistence     *)
(***************************************************************************)
EXTENDS Integers, Sequences, FiniteSets, TLC

\* ------------------------------------------------------------------ bounds
\* Largest number of body bytes of a short upstream stream.
MaxBytes == 2
\* Number of one-byte chunks of the long upstream stream (more than the
\* channel holds).
LongChunks == 17
\* Largest age of an object found in the store, and largest invalidation time.
MaxAge == 1
\* Number of bytes of a digest.  The program's digests have 256 / 8 bytes
\* (api.rs:157); the model's are shorter, its hash having fewer values.
DigestSize == 2
\* Largest number of characters of an image path.
MaxImageLen == 5

\* api.rs:188  async_broadcast::broadcast(16)
Capacity == 16

Bytes == {0, 1}

\* ------------------------------------------------------------ pure helpers
RECURSIVE Flatten(_)
\* The bytes of a sequence of chunks, in order.
Flatten(cs) == IF cs = <<>> THEN <<>> ELSE Head(cs) \o Flatten(Tail(cs))

Take(s, n) == IF n >= Len(s) THEN s ELSE SubSeq(s, 1, n)

IsPrefix(p, s) == Len(p) <= Len(s) /\ SubSeq(s, 1, Len(p)) = p

RECURSIVE HasherUpdate(_, _)
\* api.rs:196  hasher.update(&v): the running digest absorbs the chunk byte
\* by byte (SHA-256 stood for by a polynomial digest of the byte string).
HasherUpdate(h, bs) ==
    IF bs = <<>> THEN h
    ELSE HasherUpdate((h * 3 + Head(bs) + 1) % 251, Tail(bs))

\* api.rs:192  Sha256::new()
HasherNew == 0

\* The digest of a whole byte string.
Sha256(bs) == HasherUpdate(HasherNew, bs)

\* ------------------------------------------------------------------ items
\* What travels through the broadcast channel: Result<Bytes, storage::Error>.
Chunk(bs)   == [tag |-> "chunk", data |-> bs]
ReadError   == [tag |-> "read_err", data |-> <<>>]
DataCorrupt == [tag |-> "corrupt", data |-> <<>>]
IsErr(it)   == it.tag # "chunk"

RECURSIVE ItemBytes(_)
\* The body bytes carried by a sequence of items, errors carrying none.
ItemBytes(its) ==
    IF its = <<>> THEN <<>>
    ELSE (IF IsErr(Head(its)) THEN <<>> ELSE Head(its).data) \o ItemBytes(Tail(its))

\* -------------------------------------------------------- upstream inputs
ChunkSet == UNION {[1..n -> Bytes] : n \in 1..MaxBytes}

ShortStreams ==
    {cs \in UNION {[1..n -> ChunkSet] : n \in 0..MaxBytes} :
        Len(Flatten(cs)) <= MaxBytes}

LongStream == [i \in 1..LongChunks |-> <<0>>]

\* An upstream blob response (api.rs:180-187): the chunks its stream yields,
\* whether the stream then fails with a read error, and the declared length
\* (response.size()).  A stream that ends cleanly has delivered exactly the
\* declared number of bytes; one that breaks has delivered fewer.
BlobResponses ==
    {[chunks |-> cs, fails |-> FALSE, len |-> Len(Flatten(cs))] :
        cs \in ShortStreams \cup {LongStream}}
    \cup
    {[chunks |-> cs, fails |-> TRUE, len |-> Len(Flatten(cs)) + 1] :
        cs \in ShortStreams}

NoResponse == [chunks |-> <<>>, fails |-> FALSE, len |-> -1]

\* The digests a request may ask for.
WantedDigests == {Sha256(<<0, 1>>), Sha256(Flatten(LongStream))}

\* ------------------------------------------------------------ digest strings
\* A string is the sequence of its characters.
Sha256Prefix == <<"s", "h", "a", "2", "5", "6", ":">>

HexDigits == <<"0", "1", "2", "3", "4", "5", "6", "7",
               "8", "9", "a", "b", "c", "d", "e", "f">>
UpperHexDigits == <<"A", "B", "C", "D", "E", "F">>

\* hex::decode_to_slice, the value of one character: digits and the letters
\* a-f in either case are hexadecimal digits, every other character is not.
HexVal(c) ==
    IF \E i \in 1..16 : HexDigits[i] = c
    THEN (CHOOSE i \in 1..16 : HexDigits[i] = c) - 1
    ELSE IF \E i \in 1..6 : UpperHexDigits[i] = c
    THEN (CHOOSE i \in 1..6 : UpperHexDigits[i] = c) + 9
    ELSE -1

\* api.rs:153  req.digest.strip_prefix(p)
StripPrefix(s, p) ==
    IF IsPrefix(p, s)
    THEN [some |-> TRUE, rest |-> SubSeq(s, Len(p) + 1, Len(s))]
    ELSE [some |-> FALSE, rest |-> <<>>]

\* api.rs:157-158  hex::decode_to_slice(data, &mut buf[..]) into a buffer of
\* size bytes: the string must have an even length, exactly two characters
\* for each byte of the buffer, and hexadecimal digits only.
DecodeToSlice(data, size) ==
    IF \/ Len(data) % 2 # 0
       \/ Len(data) \div 2 # size
       \/ \E i \in 1..Len(data) : HexVal(data[i]) < 0
    THEN [ok |-> FALSE, bytes |-> <<>>]
    ELSE [ok |-> TRUE,
          bytes |-> [i \in 1..size |->
                        HexVal(data[2 * i - 1]) * 16 + HexVal(data[2 * i])]]

\* api.rs:216  hex::encode_to_slice: two lowercase digits for each byte.
HexEncode(bytes) ==
    [i \in 1..(2 * Len(bytes)) |->
        IF i % 2 = 1 THEN HexDigits[(bytes[(i + 1) \div 2] \div 16) + 1]
        ELSE HexDigits[(bytes[i \div 2] % 16) + 1]]

RECURSIVE DigestValue(_)
\* A digest buffer as the number the hasher's result is compared with
\* (api.rs:212-213).
DigestValue(bytes) ==
    IF bytes = <<>> THEN 0
    ELSE DigestValue(SubSeq(bytes, 1, Len(bytes) - 1)) * 256 + bytes[Len(bytes)]

\* The digest buffer of a hash value.
DigestBytes(d) == [i \in 1..DigestSize |-> IF i = DigestSize THEN d ELSE 0]

\* The digest string that names the content with hash d.
DigestString(d) == Sha256Prefix \o HexEncode(DigestBytes(d))

\* api.rs:153-160  the check of the digest string: the prefix is there and
\* the rest decodes into the digest buffer.
DigestAccepted(d) ==
    /\ StripPrefix(d, Sha256Prefix).some
    /\ DecodeToSlice(StripPrefix(d, Sha256Prefix).rest, DigestSize).ok

\* api.rs:156-162  wanted_digest, the decoded buffer.
DecodedDigest(d) ==
    DigestValue(DecodeToSlice(StripPrefix(d, Sha256Prefix).rest, DigestSize).bytes)

\* Two digest strings that are not well formed: another algorithm, and a
\* hex part of odd length.
BadDigests == {<<"m", "d", "5", ":", "0", "0">>, Sha256Prefix \o <<"0">>}

\* The digest strings of the blob requests followed through the handler.
RequestDigests == {DigestString(d) : d \in WantedDigests} \cup BadDigests

\* No digest was decoded (a manifest request; a blob request before line 156).
NoDigest == -1

\* ------------------------------------------------------ names and paths
\* Option<&str>
None == [some |-> FALSE, v |-> <<>>]
Some(v) == [some |-> TRUE, v |-> v]

\* str::contains(c)
Contains(s, c) == \E i \in 1..Len(s) : s[i] = c

\* str::split_once(c): the parts before and after the first c.
SplitOnce(s, c) ==
    IF Contains(s, c)
    THEN LET i == CHOOSE k \in 1..Len(s) :
                      s[k] = c /\ \A j \in 1..(k - 1) : s[j] # c
         IN  [some |-> TRUE, before |-> SubSeq(s, 1, i - 1),
              after |-> SubSeq(s, i + 1, Len(s))]
    ELSE [some |-> FALSE, before |-> <<>>, after |-> <<>>]

\* api.rs:69  image.split('/').next(): the part before the first '/', the
\* whole string if it has none.
FirstSegment(s) == IF Contains(s, "/") THEN SplitOnce(s, "/").before ELSE s

\* A resolver that takes the first segment as the namespace whenever the
\* path has a '/'.
split_image_AtAnySlash(ns, image, default_ns) ==
    IF ns.some THEN [namespace |-> ns.v, image |-> image]
    ELSE IF SplitOnce(image, "/").some
         THEN [namespace |-> SplitOnce(image, "/").before,
               image |-> SplitOnce(image, "/").after]
         ELSE [namespace |-> default_ns, image |-> image]

\* api.rs:241-249  split_image
split_image(ns, image, default_ns) ==
    IF ns.some THEN [namespace |-> ns.v, image |-> image]
    ELSE LET sp == SplitOnce(image, "/")
         IN  IF sp.some /\ Contains(sp.after, "/")
             THEN [namespace |-> sp.before, image |-> sp.after]
             ELSE [namespace |-> default_ns, image |-> image]

ManifestsDir == <<"m", "a", "n", "i", "f", "e", "s", "t", "s">>
BlobsDir == <<"b", "l", "o", "b", "s">>

\* A manifest key that always carries the namespace segment.
ManifestRequest_storage_path_NeverElides(r, n) ==
    ManifestsDir \o <<"/">> \o n \o <<"/">> \o r.image \o <<"/">> \o r.reference

\* api.rs:68-73  ManifestRequest::storage_path(&self, ns)
ManifestRequest_storage_path(r, n) ==
    IF FirstSegment(r.image) = n
    THEN ManifestsDir \o <<"/">> \o r.image \o <<"/">> \o r.reference
    ELSE ManifestsDir \o <<"/">> \o n \o <<"/">> \o r.image \o <<"/">> \o r.reference

\* A blob key that carries the image path.
BlobRequest_storage_path_WithImage(r) ==
    BlobsDir \o <<"/">> \o r.image \o <<"/">> \o r.digest

\* api.rs:141-146  BlobRequest::storage_path(&self): method and hash are the
\* parts of the digest around its first ':', the hash is cut after its
\* second character (digest strings are ASCII).
BlobRequest_storage_path(r) ==
    LET sp == SplitOnce(r.digest, ":")
        method == IF sp.some THEN sp.before ELSE <<"_">>
        hash == IF sp.some THEN sp.after ELSE r.digest
        hash_prefix == IF Len(hash) >= 2 THEN SubSeq(hash, 1, 2) ELSE <<"_">>
        rest_of_hash == IF Len(hash) >= 2 THEN SubSeq(hash, 3, Len(hash)) ELSE hash
    IN  BlobsDir \o <<"/">> \o method \o <<"/">> \o hash_prefix
            \o <<"/">> \o rest_of_hash

\* Strings of path characters: every string, and the image paths made of
\* non-empty segments.
PathChars == {"a", "b", "/"}
ImageStrings == UNION {[1..n -> PathChars] : n \in 0..MaxImageLen}
ImageNames ==
    {s \in ImageStrings :
        /\ s # <<>> /\ s[1] # "/" /\ s[Len(s)] # "/"
        /\ \A i \in 1..(Len(s) - 1) : ~(s[i] = "/" /\ s[i + 1] = "/")}

\* Namespaces (qstr.ns, config.default_ns) and references (tags).
NsNames == {<<"a">>, <<"b">>}
NsOptions == {None} \cup {Some(n) : n \in NsNames}
References == {<<"t">>, <<"u">>}

\* No path was computed.
NoPath == <<>>

\* A manifest as fetched from upstream (api.rs:113-118): bytes, media type
\* (10, 11 stand for two media types) and optional digest (0 stands for None).
ManifestResponses ==
    {[manifest |-> b, media_type |-> 10, digest |-> d] :
        b \in {<<0>>, <<0, 1>>}, d \in {0, 20}}

NoManifest == [manifest |-> <<>>, media_type |-> 0, digest |-> 0]

\* api.rs:121  serde_json::to_vec(&manifest): the media type, the digest,
\* then the payload.
ToVec(m) == <<m.media_type, m.digest>> \o m.manifest

\* api.rs:101  serde_json::from_slice succeeds on a serialized Manifest only.
CanParse(bs) == Len(bs) >= 2 /\ bs[1] >= 10

FromSlice(bs) ==
    [manifest |-> SubSeq(bs, 3, Len(bs)), media_type |-> bs[1], digest |-> bs[2]]

\* ------------------------------------------------------------ object store
NoObject == [present |-> FALSE, bytes |-> <<>>, age |-> 0]
Object(bs, a) == [present |-> TRUE, bytes |-> bs, age |-> a]

\* A read that succeeds on a key that holds nothing.
ReadOk_IgnoresAbsence(obj, invalidation) == ~(obj.age > invalidation)

\* s3.rs:70-79  Repository::read: the object must exist and must not be
\* older than the invalidation time.
ReadOk(obj, invalidation) == obj.present /\ ~(obj.age > invalidation)

\* s3.rs:71, 74-76  why a read failed: get_object found nothing, or the
\* object is older than the invalidation time (ObjectTooOld).
ReadFailure(obj) == IF obj.present THEN "too_old" ELSE "not_found"

\* A store whose PUT does not replace an object that is already there.
PutObject_KeepsExisting(old, bs) == IF old.present THEN old ELSE Object(bs, 0)

\* Repository::delete (storage module, not among the sources; spec:
\* cached objects are "removed by explicit delete"): a successful delete
\* leaves nothing at the key.
DeleteObject(old) == NoObject

\* s3.rs:87-94  a successful put_object: whatever was at the key, the key
\* now holds the bytes of the body, last modified now.
PutObject(old, bs) == Object(bs, 0)

\* ------------------------------------------------------- broadcast channel
\* async_broadcast as created at api.rs:188: a queue of (message, number of
\* receivers still to receive it), overflow off.
ChanNew ==
    [queue |-> <<>>, head_pos |-> 0, receiver_count |-> 1,
     sender_count |-> 1, is_closed |-> FALSE]

NoChan ==
    [queue |-> <<>>, head_pos |-> 0, receiver_count |-> 0,
     sender_count |-> 0, is_closed |-> FALSE]

\* A channel that never refuses a message.
IsFull_Never(ch) == FALSE

\* A channel of one slot.
IsFull_AtOne(ch) == Len(ch.queue) >= 1

\* The channel refuses a message while it holds Capacity of them.
IsFull(ch) == Len(ch.queue) >= Capacity

\* api.rs:205  tx.broadcast(chunk): the message joins the queue, owed to
\* every receiver.
Push(ch, msg) ==
    [ch EXCEPT !.queue = Append(@, [msg |-> msg, count |-> ch.receiver_count])]

\* What a receiver at position pos finds: "item", "empty" or "closed".
RecvStatus(ch, pos) ==
    IF pos - ch.head_pos < Len(ch.queue) THEN "item"
    ELSE IF ch.is_closed THEN "closed" ELSE "empty"

\* A receiver that reads the oldest queued message, not the one at its position.
RecvItem_Head(ch, pos) == ch.queue[1].msg

\* try_recv: the message at the receiver's position.
RecvItem(ch, pos) == ch.queue[pos - ch.head_pos + 1].msg

\* The channel after the receiver at pos has taken its next message: the
\* message's count drops, and the message leaves the queue once nobody is
\* owed it.
AfterRecv(ch, pos) ==
    LET i == pos - ch.head_pos + 1
        c == ch.queue[i].count - 1
    IN  IF c = 0
        THEN [ch EXCEPT !.queue = Tail(@), !.head_pos = @ + 1]
        ELSE [ch EXCEPT !.queue[i].count = c]

RECURSIVE Drain(_, _)
\* A dropped receiver takes every message still owed to it.
Drain(ch, pos) ==
    IF pos - ch.head_pos < Len(ch.queue)
    THEN Drain(AfterRecv(ch, pos), pos + 1)
    ELSE ch

\* Receiver::drop: drain, leave, and close the channel with the last receiver.
DropReceiver(ch, pos) ==
    LET d == Drain(ch, pos)
        n == d.receiver_count - 1
    IN  [d EXCEPT !.receiver_count = n, !.is_closed = @ \/ n = 0]

\* api.rs:225  rx.clone(): a second receiver at the same position, owed every
\* message the first is still owed.
CloneReceiver(ch, pos) ==
    [ch EXCEPT !.receiver_count = @ + 1,
               !.queue = [j \in 1..Len(ch.queue) |->
                             IF j > pos - ch.head_pos
                             THEN [ch.queue[j] EXCEPT !.count = @ + 1]
                             ELSE ch.queue[j]]]

\* Sender::drop at the end of the producer task: the last sender closes.
DropSender(ch) ==
    [ch EXCEPT !.sender_count = @ - 1, !.is_closed = @ \/ ch.sender_count = 1]

\* The upstream errors, told apart only by what the predicate imported at
\* api.rs:31 answers for them (its body is not in these files and is left
\* uninterpreted).
UpstreamErrors == {[retry_without_ns |-> TRUE], [retry_without_ns |-> FALSE]}

\* api.rs:115, 182  the guard should_retry_without_namespace(&e)
should_retry_without_namespace(e) == e.retry_without_ns

\* ------------------------------------------------------------------- state
VARIABLES
    kind,            \* "manifest" or "blob": which handler serves the request
    digest,          \* blob: req.digest, the digest string of the request
    req,             \* req.image and, for a manifest, req.reference
    qstr_ns,         \* qstr.ns
    default_ns,      \* config.default_ns
    namespace,       \* the namespace split_image resolved
    upstream_image,  \* the image split_image resolved
    storage_path,    \* the cache key of the request
    peer,            \* the persistence task of another request for the digest
    wanted_digest,   \* blob: the decoded digest of the request (api.rs:156)
    cache_read,      \* the result of the cache probe's repo.read
    store,           \* the object at the request's storage path
    pc,              \* where the handler is
    response,        \* what the handler returned: status and body
    hits, misses,    \* HIT_COUNTER, MISS_COUNTER
    upstream_calls,  \* every call made on the upstream client, in order
    fetched,         \* blob: the upstream response being streamed
    manifest_val,    \* manifest: the Manifest built from upstream
    ppc,             \* producer task: where it is
    upos,            \* producer: chunks taken from the upstream stream
    hasher,          \* producer: the running digest
    pending,         \* producer: the message it is broadcasting
    published,       \* every message the channel accepted, in order
    chan,            \* the broadcast channel
    rxpos,           \* each receiver's position
    recv,            \* every message each consumer received, in order
    astate,          \* consumer A (response body): where it is
    bpc,             \* consumer B (persistence task): where it is
    write_result,    \* the result of the request's repo.write
    store_fault,     \* whether the store itself failed the blob's PUT
    delete_result,   \* the result of the compensating repo.delete
    deletes          \* number of repo.delete calls of this request

hvars == <<kind, digest, wanted_digest, cache_read, pc, response, hits, misses,
           upstream_calls, fetched, manifest_val>>
fvars == <<ppc, upos, hasher, pending, published, chan, rxpos, recv, astate,
           bpc, write_result, store_fault, delete_result, deletes>>
pvars == <<req, qstr_ns, default_ns, namespace, upstream_image, storage_path>>
vars == <<hvars, fvars, pvars, peer, store>>

Consumers == {"A", "B"}

\* No other request is writing to the key.
NoPeer == [bpc |-> "idle", write_result |-> "none", delete_result |-> "none"]

NoItem == [tag |-> "none", data |-> <<>>]
NoReply == [status |-> "none", body |-> <<>>, media_type |-> 0, digest |-> 0]
ErrorReply(e) == [status |-> e, body |-> <<>>, media_type |-> 0, digest |-> 0]

\* What the store may hold at the key before the request.
InitialBytes(k) ==
    IF k = "manifest"
    THEN {<<1, 1>>, ToVec([manifest |-> <<1>>, media_type |-> 11, digest |-> 20])}
    ELSE {<<1, 1>>}

Init ==
    /\ kind \in {"manifest", "blob"}
    /\ digest \in (IF kind = "blob" THEN RequestDigests ELSE {<<>>})
    /\ wanted_digest = NoDigest
    /\ cache_read = "none"
    /\ store \in {NoObject} \cup
                 {Object(bs, a) : bs \in InitialBytes(kind), a \in 0..MaxAge}
    /\ pc = (IF kind = "blob" THEN "digest" ELSE "start")
    /\ req = [image |-> <<"a", "/", "b">>,
              reference |-> IF kind = "blob" THEN <<>> ELSE <<"t">>]
    /\ qstr_ns = None
    /\ default_ns = <<"a">>
    /\ namespace = NoPath
    /\ upstream_image = NoPath
    /\ storage_path = NoPath
    /\ peer = NoPeer
    /\ response = NoReply
    /\ hits = 0
    /\ misses = 0
    /\ upstream_calls = <<>>
    /\ fetched = NoResponse
    /\ manifest_val = NoManifest
    /\ ppc = "idle"
    /\ upos = 0
    /\ hasher = HasherNew
    /\ pending = NoItem
    /\ published = <<>>
    /\ chan = NoChan
    /\ rxpos = [c \in Consumers |-> 0]
    /\ recv = [c \in Consumers |-> <<>>]
    /\ astate = "none"
    /\ bpc = "idle"
    /\ write_result = "none"
    /\ store_fault = FALSE
    /\ delete_result = "none"
    /\ deletes = 0

\* ---------------------------------------------------------------- handlers
\* manifest_response (api.rs:81-88)
manifest_response(m) ==
    [status |-> "ok", body |-> m.manifest, media_type |-> m.media_type,
     digest |-> m.digest]

\* A handler that goes on with a digest it could not decode.
AfterDigestCheck_Continues(valid) == "start"

\* api.rs:153-162  where the blob handler goes after the digest check: on,
\* or out with the error.
AfterDigestCheck(valid) == IF valid THEN "start" ELSE "done"

\* api.rs:153-166  the digest string must start with "sha256:" and the rest
\* must decode into the digest buffer, else InvalidDigest is returned; then
\* the namespace is resolved and the storage path computed.
ValidateDigest ==
    /\ pc = "digest"
    /\ LET valid == DigestAccepted(digest)
       IN  /\ pc' = AfterDigestCheck(valid)
           /\ wanted_digest' =
                 IF valid THEN DecodedDigest(digest) ELSE wanted_digest
           /\ response' =
                 IF valid THEN response ELSE ErrorReply("InvalidDigest")
           /\ IF valid
              THEN /\ namespace' = split_image(qstr_ns, req.image, default_ns).namespace
                   /\ upstream_image' = split_image(qstr_ns, req.image, default_ns).image
                   /\ storage_path' =
                         BlobRequest_storage_path([image |-> req.image,
                                                   digest |-> digest])
              ELSE UNCHANGED <<namespace, upstream_image, storage_path>>
    /\ UNCHANGED <<req, qstr_ns, default_ns, peer>>
    /\ UNCHANGED <<kind, digest, cache_read, hits, misses, upstream_calls,
                   fetched, manifest_val, fvars, store>>

\* api.rs:94-97 / api.rs:167  config.upstream.lock().await.get(namespace)?
\* The manifest handler resolves the namespace before it and computes the
\* storage path after it.
Lookup ==
    /\ pc = "start"
    /\ \/ pc' = "read" /\ response' = response
       \/ pc' = "done" /\ response' = ErrorReply("error")
    /\ IF kind = "manifest"
       THEN /\ namespace' = split_image(qstr_ns, req.image, default_ns).namespace
            /\ upstream_image' = split_image(qstr_ns, req.image, default_ns).image
            /\ storage_path' =
                  IF pc' = "read"
                  THEN ManifestRequest_storage_path(
                           req, split_image(qstr_ns, req.image, default_ns).namespace)
                  ELSE storage_path
       ELSE UNCHANGED <<namespace, upstream_image, storage_path>>
    /\ UNCHANGED <<req, qstr_ns, default_ns, peer>>
    /\ UNCHANGED <<kind, digest, wanted_digest, cache_read, hits, misses, upstream_calls,
                   fetched, manifest_val, fvars, store>>

\* A handler that forgets to return after a hit.
AfterHit_FallsThrough == "miss"

\* Where the handler goes after a successful cache read (api.rs:99-104,
\* 169-172): it returns.
AfterHit == "done"

\* api.rs:96-106  the manifest cache probe, under the namespace's
\* manifest_invalidation_time max_age: a readable, parsable object is
\* returned and counted as a hit; a failed read falls through to upstream.
ManifestProbe ==
    /\ pc = "read" /\ kind = "manifest"
    /\ \E max_age \in 0..MaxAge :
         IF ReadOk(store, max_age)
         THEN /\ cache_read' = "ok"
              /\ IF CanParse(store.bytes)
                 THEN /\ hits' = hits + 1
                      /\ response' = manifest_response(FromSlice(store.bytes))
                      /\ pc' = AfterHit
                 ELSE /\ hits' = hits
                      /\ response' = ErrorReply("error")
                      /\ pc' = "done"
         ELSE /\ cache_read' = ReadFailure(store)
              /\ pc' = "miss"
              /\ UNCHANGED <<hits, response>>
    /\ UNCHANGED <<kind, digest, wanted_digest, misses, upstream_calls,
                   fetched, manifest_val, fvars, store>>
    /\ UNCHANGED <<pvars, peer>>

\* api.rs:167-174  the blob cache probe, under the namespace's
\* blob_invalidation_time max_age: a readable object is streamed as the
\* response and counted as a hit; a failed read falls through to upstream.
BlobProbe ==
    /\ pc = "read" /\ kind = "blob"
    /\ \E max_age \in 0..MaxAge :
         IF ReadOk(store, max_age)
         THEN /\ cache_read' = "ok"
              /\ hits' = hits + 1
              /\ response' = [NoReply EXCEPT !.status = "ok", !.body = store.bytes]
              /\ pc' = AfterHit
         ELSE /\ cache_read' = ReadFailure(store)
              /\ pc' = "miss"
              /\ UNCHANGED <<hits, response>>
    /\ UNCHANGED <<kind, digest, wanted_digest, misses, upstream_calls,
                   fetched, manifest_val, fvars, store>>
    /\ UNCHANGED <<pvars, peer>>

\* api.rs:108-110 / api.rs:176-178  the miss is counted, then the upstream
\* client is looked up again.
Miss ==
    /\ pc = "miss"
    /\ misses' = misses + 1
    /\ \/ pc' = "auth" /\ response' = response
       \/ pc' = "done" /\ response' = ErrorReply("error")
    /\ UNCHANGED <<kind, digest, wanted_digest, cache_read, hits, upstream_calls,
                   fetched, manifest_val, fvars, store>>
    /\ UNCHANGED <<pvars, peer>>

Call(op, ns, res) == [op |-> op, ns |-> ns, result |-> res]

\* api.rs:46-49, 111, 179  authenticate_with_upstream(...)?
Authenticate ==
    /\ pc = "auth"
    /\ \/ /\ upstream_calls' = Append(upstream_calls, Call("authenticate", FALSE, "ok"))
          /\ pc' = "fetch1" /\ response' = response
       \/ /\ upstream_calls' = Append(upstream_calls, Call("authenticate", FALSE, "err"))
          /\ pc' = "done" /\ response' = ErrorReply("error")
    /\ UNCHANGED <<kind, digest, wanted_digest, cache_read, hits, misses,
                   fetched, manifest_val, fvars, store>>
    /\ UNCHANGED <<pvars, peer>>

\* An upstream blob response that declares no length (api.rs:187).
Unsized == [chunks |-> <<<<0>>>>, fails |-> FALSE, len |-> -1]

\* api.rs:114, 181  Ok(v) => v: the fetch, made with (ns) or without the
\* namespace parameter, succeeded.
FetchOk(ns) ==
    /\ upstream_calls' = Append(upstream_calls, Call("fetch", ns, "ok"))
    /\ IF kind = "blob"
       THEN /\ \E r \in BlobResponses \cup {Unsized} : fetched' = r
            /\ manifest_val' = manifest_val
            /\ pc' = "wire"
       ELSE /\ \E m \in ManifestResponses : manifest_val' = m
            /\ fetched' = fetched
            /\ pc' = "write"
    /\ response' = response

\* The fetch failed with error e and the handler goes to next.
FetchErr(ns, e, next) ==
    /\ upstream_calls' =
         Append(upstream_calls,
                Call("fetch", ns, IF e.retry_without_ns THEN "retryable" ELSE "other"))
    /\ pc' = next
    /\ response' = IF next = "done" THEN ErrorReply("error") ELSE response
    /\ UNCHANGED <<fetched, manifest_val>>

\* api.rs:115-116, 182-183  after the first fetch failed: one retry without
\* the namespace if the predicate accepts the error, else the error is returned.
AfterFirstFetchError(e) ==
    IF should_retry_without_namespace(e) THEN "fetch2" ELSE "done"

\* A handler that retries again when the retry fails with an accepted error.
AfterSecondFetchError_Retries(e) ==
    IF should_retry_without_namespace(e) THEN "fetch2" ELSE "done"

\* api.rs:115, 182  `.await?` on the second fetch: any error is returned.
AfterSecondFetchError(e) == "done"

\* api.rs:113, 180  the fetch with Some(namespace)
Fetch1 ==
    /\ pc = "fetch1"
    /\ \/ FetchOk(TRUE)
       \/ \E e \in UpstreamErrors : FetchErr(TRUE, e, AfterFirstFetchError(e))
    /\ UNCHANGED <<kind, digest, wanted_digest, cache_read, hits, misses, fvars, store>>
    /\ UNCHANGED <<pvars, peer>>

\* api.rs:115, 182  the fetch with None
Fetch2 ==
    /\ pc = "fetch2"
    /\ \/ FetchOk(FALSE)
       \/ \E e \in UpstreamErrors : FetchErr(FALSE, e, AfterSecondFetchError(e))
    /\ UNCHANGED <<kind, digest, wanted_digest, cache_read, hits, misses, fvars, store>>
    /\ UNCHANGED <<pvars, peer>>

\* api.rs:121-123  the fetched manifest is serialized and repo.write is
\* called: the handler is suspended on its .await until the PUT is answered.
ManifestWrite ==
    /\ pc = "write"
    /\ pc' = "writing"
    /\ UNCHANGED <<kind, digest, wanted_digest, cache_read, response, hits, misses,
                   upstream_calls, fetched, manifest_val, fvars, store>>
    /\ UNCHANGED <<pvars, peer>>

\* api.rs:123-127  the store answers the PUT (s3.rs:94-95): the object is
\* stored, or the write fails and the failure is logged; then the handler
\* returns the manifest.
ManifestReturn ==
    /\ pc = "writing"
    /\ \/ /\ write_result' = "ok"
          /\ store' = PutObject(store, ToVec(manifest_val))
       \/ /\ write_result' = "err"
          /\ store' = store
    /\ response' = manifest_response(manifest_val)
    /\ pc' = "done"
    /\ UNCHANGED <<kind, digest, wanted_digest, cache_read, hits, misses, upstream_calls,
                   fetched, manifest_val, ppc, upos, hasher, pending, published,
                   chan, rxpos, recv, astate, bpc, store_fault, delete_result,
                   deletes>>
    /\ UNCHANGED <<pvars, peer>>

\* api.rs:187-237  the blob response must declare its length; then the
\* channel is made, the producer and the persistence task are spawned with
\* rx2 = rx.clone(), and the response is returned with rx as its body.
Wire ==
    /\ pc = "wire"
    /\ pc' = "done"
    /\ IF fetched.len < 0
       THEN /\ response' = ErrorReply("MissingContentLength")
            /\ UNCHANGED fvars
       ELSE /\ response' = [NoReply EXCEPT !.status = "ok"]
            /\ chan' = CloneReceiver(ChanNew, 0)
            /\ ppc' = "next"
            /\ bpc' = "write"
            /\ astate' = "streaming"
            /\ UNCHANGED <<upos, hasher, pending, published, rxpos, recv,
                           write_result, store_fault, delete_result, deletes>>
    /\ UNCHANGED <<kind, digest, wanted_digest, cache_read, hits, misses, upstream_calls,
                   fetched, manifest_val, store>>
    /\ UNCHANGED <<pvars, peer>>

\* ------------------------------------------------------------ the producer
\* A producer that gives up as soon as one of the two receivers is gone.
BroadcastStatus_AnyReceiverGone(ch) ==
    IF ch.is_closed \/ ch.receiver_count < 2 THEN "closed"
    ELSE IF IsFull(ch) THEN "full" ELSE "ok"

\* What tx.broadcast(..).await meets (api.rs:205, 219): an error on a closed
\* channel, suspension on a full one, else the message is queued.
BroadcastStatus(ch) ==
    IF ch.is_closed THEN "closed" ELSE IF IsFull(ch) THEN "full" ELSE "ok"

\* api.rs:193-204  stream.next(): the next chunk is hashed and kept for the
\* broadcast; a read error is kept as it is; the end of the stream leaves
\* the loop.
ProducerNext ==
    /\ ppc = "next"
    /\ IF upos < Len(fetched.chunks)
       THEN /\ hasher' = HasherUpdate(hasher, fetched.chunks[upos + 1])
            /\ pending' = Chunk(fetched.chunks[upos + 1])
            /\ upos' = upos + 1
            /\ ppc' = "broadcast"
       ELSE IF fetched.fails
       THEN /\ pending' = ReadError
            /\ ppc' = "broadcast"
            /\ UNCHANGED <<hasher, upos>>
       ELSE /\ ppc' = "final"
            /\ UNCHANGED <<hasher, upos, pending>>
    /\ UNCHANGED <<published, chan, rxpos, recv, astate, bpc, write_result,
                   store_fault, delete_result, deletes, hvars, store>>
    /\ UNCHANGED <<pvars, peer>>

\* A producer that ends after its first broadcast, whatever it carried.
AfterBroadcast_AlwaysEnds(item) == "done"

\* api.rs:204-210  the task ends after an error was broadcast.
AfterBroadcast(item) == IF IsErr(item) THEN "done" ELSE "next"

\* api.rs:205-210  tx.broadcast(chunk).await: the task ends when every
\* receiver is gone, waits while the channel is full, and goes on reading
\* after a chunk.
ProducerBroadcast ==
    /\ ppc = "broadcast"
    /\ BroadcastStatus(chan) # "full"
    /\ IF BroadcastStatus(chan) = "closed"
       THEN /\ ppc' = "done"
            /\ chan' = DropSender(chan)
            /\ published' = published
       ELSE /\ ppc' = AfterBroadcast(pending)
            /\ published' = Append(published, pending)
            /\ chan' = IF AfterBroadcast(pending) = "done"
                       THEN DropSender(Push(chan, pending))
                       ELSE Push(chan, pending)
    /\ pending' = NoItem
    /\ UNCHANGED <<upos, hasher, rxpos, recv, astate, bpc, write_result,
                   store_fault, delete_result, deletes, hvars, store>>
    /\ UNCHANGED <<pvars, peer>>

\* A producer whose comparison never reports a difference.
Mismatch_Never(result, wanted) == result # result

\* api.rs:213  result != wanted_digest
Mismatch(result, wanted) == result # wanted

\* api.rs:212-220  the digest is finalized and compared with the one asked for.
ProducerFinalize ==
    /\ ppc = "final"
    /\ IF Mismatch(hasher, wanted_digest)
       THEN /\ pending' = DataCorrupt
            /\ ppc' = "corrupt"
            /\ chan' = chan
       ELSE /\ pending' = pending
            /\ ppc' = "done"
            /\ chan' = DropSender(chan)
    /\ UNCHANGED <<upos, hasher, published, rxpos, recv, astate, bpc,
                   write_result, store_fault, delete_result, deletes, hvars, store>>
    /\ UNCHANGED <<pvars, peer>>

\* api.rs:219  let _ = tx.broadcast(Err(UpstreamDataCorrupt)).await
ProducerCorrupt ==
    /\ ppc = "corrupt"
    /\ BroadcastStatus(chan) # "full"
    /\ IF BroadcastStatus(chan) = "closed"
       THEN /\ chan' = DropSender(chan)
            /\ published' = published
       ELSE /\ chan' = DropSender(Push(chan, pending))
            /\ published' = Append(published, pending)
    /\ ppc' = "done"
    /\ pending' = NoItem
    /\ UNCHANGED <<upos, hasher, rxpos, recv, astate, bpc, write_result,
                   store_fault, delete_result, deletes, hvars, store>>
    /\ UNCHANGED <<pvars, peer>>

\* ------------------------------------------------ consumer A: the response
\* api.rs:237  the body stream is polled: a chunk is sent on, an error or
\* the end of the channel ends the body and drops rx.
APoll ==
    /\ astate = "streaming"
    /\ RecvStatus(chan, rxpos["A"]) # "empty"
    /\ IF RecvStatus(chan, rxpos["A"]) = "item"
       THEN LET it == RecvItem(chan, rxpos["A"])
                ch == AfterRecv(chan, rxpos["A"])
            IN  /\ recv' = [recv EXCEPT !["A"] = Append(@, it)]
                /\ rxpos' = [rxpos EXCEPT !["A"] = @ + 1]
                /\ astate' = IF IsErr(it) THEN "error" ELSE "streaming"
                /\ chan' = IF IsErr(it)
                           THEN DropReceiver(ch, rxpos["A"] + 1) ELSE ch
       ELSE /\ astate' = "eof"
            /\ chan' = DropReceiver(chan, rxpos["A"])
            /\ UNCHANGED <<recv, rxpos>>
    /\ UNCHANGED <<ppc, upos, hasher, pending, published, bpc, write_result,
                   store_fault, delete_result, deletes, hvars, store>>
    /\ UNCHANGED <<pvars, peer>>

\* The client disconnects: the response body, and rx with it, is dropped.
ADisconnect ==
    /\ astate = "streaming"
    /\ astate' = "disconnected"
    /\ chan' = DropReceiver(chan, rxpos["A"])
    /\ UNCHANGED <<ppc, upos, hasher, pending, published, rxpos, recv, bpc,
                   write_result, store_fault, delete_result, deletes, hvars, store>>
    /\ UNCHANGED <<pvars, peer>>

\* --------------------------------------------- consumer B: the persistence
\* The body bytes handed to the storage write so far, cut at the declared
\* length (s3.rs:90 content_length).
BBytes == Take(ItemBytes(recv["B"]), fetched.len)

\* s3.rs:87-94  the PUT declares content_length = length: its body is
\* complete once that many bytes were handed over.
BodyComplete(handed, length) == handed >= length

\* A persistence task that never deletes.
AfterWrite_NoDelete(result) == "done"

\* api.rs:228-233  a failed write is followed by the delete, a successful
\* one by nothing.
AfterWrite(result) == IF result = "err" THEN "delete" ELSE "done"

\* s3.rs:94  put_object(req).await? fails: repo.write returns the error.  The
\* store keeps what it had, or is left with the bytes handed over so far.
WriteFails(fault) ==
    /\ write_result' = "err"
    /\ store_fault' = fault
    /\ bpc' = AfterWrite("err")
    /\ \E partial \in BOOLEAN :
         store' = IF partial THEN Object(BBytes, 0) ELSE store

\* s3.rs:91-94  the PUT polls its body stream rx2: a chunk is handed to the
\* store, an error fails the write, and the end of the channel ends the
\* body, which fails the write if bytes are missing.
BPoll ==
    /\ bpc = "write"
    /\ RecvStatus(chan, rxpos["B"]) # "empty"
    /\ IF RecvStatus(chan, rxpos["B"]) = "item"
       THEN LET it == RecvItem(chan, rxpos["B"])
                ch == AfterRecv(chan, rxpos["B"])
            IN  /\ recv' = [recv EXCEPT !["B"] = Append(@, it)]
                /\ rxpos' = [rxpos EXCEPT !["B"] = @ + 1]
                /\ IF IsErr(it)
                   THEN /\ chan' = DropReceiver(ch, rxpos["B"] + 1)
                        /\ WriteFails(FALSE)
                   ELSE /\ chan' = ch
                        /\ UNCHANGED <<bpc, write_result, store_fault, store>>
       ELSE /\ chan' = DropReceiver(chan, rxpos["B"])
            /\ UNCHANGED <<recv, rxpos>>
            /\ IF BodyComplete(Len(ItemBytes(recv["B"])), fetched.len)
               THEN /\ bpc' = "sent"
                    /\ UNCHANGED <<write_result, store_fault, store>>
               ELSE WriteFails(FALSE)
    /\ UNCHANGED <<ppc, upos, hasher, pending, published, astate,
                   delete_result, deletes, hvars>>
    /\ UNCHANGED <<pvars, peer>>

\* s3.rs:90-94  with the declared length handed over, the PUT's body is
\* complete: the transport may stop polling rx2 and drop it.
BStopAtLength ==
    /\ bpc = "write"
    /\ BodyComplete(Len(ItemBytes(recv["B"])), fetched.len)
    /\ bpc' = "sent"
    /\ chan' = DropReceiver(chan, rxpos["B"])
    /\ UNCHANGED <<ppc, upos, hasher, pending, published, rxpos, recv, astate,
                   write_result, store_fault, delete_result, deletes, hvars, store>>
    /\ UNCHANGED <<pvars, peer>>

\* s3.rs:94  the PUT breaks while its body is being sent.
BPutAbort ==
    /\ bpc = "write"
    /\ chan' = DropReceiver(chan, rxpos["B"])
    /\ WriteFails(TRUE)
    /\ UNCHANGED <<ppc, upos, hasher, pending, published, rxpos, recv, astate,
                   delete_result, deletes, hvars>>
    /\ UNCHANGED <<pvars, peer>>

\* s3.rs:94-95  the store answers the PUT: the object is stored and
\* repo.write returns Ok, or the PUT is refused and it returns the error.
BPutResponse ==
    /\ bpc = "sent"
    /\ \/ /\ write_result' = "ok"
          /\ bpc' = AfterWrite("ok")
          /\ store' = PutObject(store, BBytes)
          /\ store_fault' = FALSE
       \/ WriteFails(TRUE)
    /\ UNCHANGED <<ppc, upos, hasher, pending, published, chan, rxpos, recv,
                   astate, delete_result, deletes, hvars>>
    /\ UNCHANGED <<pvars, peer>>

\* api.rs:230-232  config.repo.delete(storage_path): its failure is logged.
BDelete ==
    /\ bpc = "delete"
    /\ bpc' = "done"
    /\ deletes' = deletes + 1
    /\ \/ delete_result' = "ok" /\ store' = NoObject
       \/ delete_result' = "err" /\ store' = store
    /\ UNCHANGED <<ppc, upos, hasher, pending, published, chan, rxpos, recv,
                   astate, write_result, store_fault, hvars>>
    /\ UNCHANGED <<pvars, peer>>

\* ----------------------------------------------------------- specification
Next ==
    \/ ValidateDigest
    \/ Lookup
    \/ ManifestProbe
    \/ BlobProbe
    \/ Miss
    \/ Authenticate
    \/ Fetch1
    \/ Fetch2
    \/ ManifestWrite
    \/ ManifestReturn
    \/ Wire
    \/ ProducerNext
    \/ ProducerBroadcast
    \/ ProducerFinalize
    \/ ProducerCorrupt
    \/ APoll
    \/ ADisconnect
    \/ BPoll
    \/ BStopAtLength
    \/ BPutAbort
    \/ BPutResponse
    \/ BDelete

Spec == Init /\ [][Next]_vars

\* The blob handler alone, from an empty cache key, under the scheduler's
\* fairness: the handler, the producer task and the persistence task each
\* take a step they can take.  The client's pace (APoll), its disconnection
\* and the store's faults are under no obligation.
InitBlob == Init /\ kind = "blob" /\ store = NoObject

HandlerStep == ValidateDigest \/ Lookup \/ BlobProbe \/ Miss \/ Authenticate \/ Fetch1 \/ Fetch2 \/ Wire
ProducerStep == ProducerNext \/ ProducerBroadcast \/ ProducerFinalize \/ ProducerCorrupt
PersistStep == BPoll \/ BStopAtLength \/ BPutResponse \/ BDelete

NextBlob ==
    \/ HandlerStep
    \/ ProducerStep
    \/ PersistStep
    \/ APoll
    \/ ADisconnect
    \/ BPutAbort

FairSpec ==
    /\ InitBlob
    /\ [][NextBlob]_vars
    /\ WF_vars(HandlerStep)
    /\ WF_vars(ProducerStep)
    /\ WF_vars(PersistStep)

\* ------------------------------------------------------------------ claims
\* The fan-out of the request was wired (api.rs:188-237).
Wired == ppc # "idle"

\* The upstream stream ends cleanly: no read error.
CleanStream == Wired /\ ~fetched.fails

\* The bytes of the upstream stream.
UpstreamBytes == Flatten(fetched.chunks)

\* The digest of the upstream bytes is not the one the request asked for.
Corrupt == Sha256(UpstreamBytes) # wanted_digest

\* The producer, the response body and the persistence task have all ended.
PipelineDone ==
    /\ ppc = "done"
    /\ bpc = "done"
    /\ astate \in {"error", "eof", "disconnected"}

\* The upstream chunks as channel messages.
ChunkItems == [i \in 1..Len(fetched.chunks) |-> Chunk(fetched.chunks[i])]

\* Everything the producer has to publish for the stream it was given.
UpstreamItems ==
    ChunkItems \o
    (IF fetched.fails THEN <<ReadError>>
     ELSE IF Corrupt THEN <<DataCorrupt>> ELSE <<>>)

\* C1: after a cleanly ended upstream stream whose digest differs from the
\* requested one, once producer, response body and persistence task have
\* ended, no object is at the key.  Stated for the runs in which the client
\* stayed connected to the end (it received the error), the stream had at
\* least two chunks and no compensating delete failed.
C1_NoObjectAfterCorruption ==
    (/\ PipelineDone /\ CleanStream /\ Corrupt
     /\ astate = "error" /\ Len(fetched.chunks) >= 2
     /\ delete_result # "err")
        => ~store.present

\* C2: with a clean stream whose digest matches, a response body that ended
\* normally carried exactly the upstream bytes, never ends in an error, and
\* an object persisted by the write holds exactly those bytes.
C2_FanOutCorrectness ==
    (CleanStream /\ ~Corrupt) =>
        /\ astate # "error"
        /\ (astate = "eof" => ItemBytes(recv["A"]) = UpstreamBytes)
        /\ (write_result = "ok" =>
                /\ store.present
                /\ store.bytes = UpstreamBytes
                /\ (astate = "eof" => store.bytes = ItemBytes(recv["A"])))

C2_Witness ==
    /\ PipelineDone /\ CleanStream /\ ~Corrupt
    /\ astate = "eof" /\ write_result = "ok"
    /\ Len(fetched.chunks) >= 2
    /\ store.bytes = ItemBytes(recv["A"])

Last(s) == s[Len(s)]

\* C3: when the digest of a cleanly ended stream differs from the requested
\* one, the data-corrupt error is published after every chunk, a producer
\* that ended while the response body was alive has published it, and the
\* response body never ends normally: if it ended by itself, it ended in
\* that error after all the chunks.
C3_CorruptEndsInError ==
    (CleanStream /\ Corrupt) =>
        /\ astate # "eof"
        /\ (astate = "error" => recv["A"] = ChunkItems \o <<DataCorrupt>>)
        /\ (\A i \in 1..Len(published) :
                published[i] = DataCorrupt =>
                    /\ i = Len(published)
                    /\ SubSeq(published, 1, i - 1) = ChunkItems)
        /\ ((ppc = "done" /\ astate \in {"streaming", "error"}) =>
                /\ published # <<>>
                /\ Last(published) = DataCorrupt)

C3_Witness ==
    /\ CleanStream /\ Corrupt
    /\ astate = "error"
    /\ Len(recv["A"]) >= 3
    /\ Last(recv["A"]) = DataCorrupt

\* The calls of the upstream client made so far that fetch the manifest or blob.
Fetches == SelectSeq(upstream_calls, LAMBDA c : c.op = "fetch")

\* C4: when the cache probe's read succeeded, the request makes no upstream
\* call at all and starts no fan-out, for manifests and for blobs.
C4_HitMakesNoUpstreamCall ==
    cache_read = "ok" =>
        /\ upstream_calls = <<>>
        /\ misses = 0
        /\ ~Wired
        /\ (pc = "done" => response.status \in {"ok", "error"})
        /\ (pc = "done" /\ kind = "blob" =>
                response.status = "ok" /\ response.body = store.bytes)

C4_Witness ==
    /\ cache_read = "ok" /\ pc = "done" /\ hits = 1
    /\ response.status = "ok" /\ kind = "blob"

\* The messages still queued for a receiver at position pos.
Owed(pos) ==
    [j \in 1..(Len(chan.queue) - (pos - chan.head_pos)) |->
        chan.queue[j + pos - chan.head_pos].msg]

\* Whether consumer c still holds its receiver.
Live(c) == IF c = "A" THEN astate = "streaming" ELSE bpc = "write"

\* C7: what each consumer has received so far is a prefix of what the
\* producer published, itself a prefix of what it read from upstream: no
\* message is reordered, duplicated or skipped for either consumer.
C7_ConsumersSeePrefix ==
    /\ IsPrefix(published, UpstreamItems)
    /\ \A c \in Consumers :
          /\ IsPrefix(recv[c], published)
          /\ Len(recv[c]) = rxpos[c]

C7_Witness ==
    /\ Len(recv["A"]) >= 2
    /\ Len(recv["B"]) >= 1
    /\ Len(recv["B"]) < Len(recv["A"])
    /\ recv["A"][1] # recv["A"][2]

\* C8: the channel never holds more than 16 messages; a message leaves it
\* only once every live consumer has received it (what a live consumer has
\* received, followed by what is queued for it, is everything published);
\* and no message is published in a step that starts with the channel full.
C8_Backpressure ==
    /\ [](/\ Len(chan.queue) <= 16
          /\ \A c \in Consumers :
                (Wired /\ Live(c)) => recv[c] \o Owed(rxpos[c]) = published)
    /\ [][Len(chan.queue) >= 16 => published' = published]_vars

C8_Witness ==
    /\ Len(chan.queue) = 16
    /\ ppc = "broadcast"
    /\ Live("A") /\ Live("B")
    /\ rxpos["B"] > rxpos["A"]

\* C9: a failed blob write is followed by exactly one delete of the key, a
\* successful write by none; after a failed delete the persistence task does
\* nothing more; after a successful one no object is at the key.
C9_CompensatingDelete ==
    /\ [](/\ deletes <= 1
          /\ (write_result = "ok" => deletes = 0 /\ delete_result = "none")
          /\ (bpc = "done" /\ write_result = "err" => deletes = 1)
          /\ (deletes = 1 => write_result = "err" /\ bpc = "done")
          /\ (bpc = "done" /\ delete_result = "ok" => ~store.present))
    /\ [][delete_result = "err" =>
            /\ store' = store
            /\ deletes' = deletes
            /\ bpc' = bpc]_vars

C9_Witness ==
    /\ bpc = "done"
    /\ write_result = "err"
    /\ delete_result = "ok"
    /\ ~store_fault
    /\ Len(recv["B"]) >= 2
    /\ Last(recv["B"]) = ReadError

\* C10: at most two fetches; the first names the namespace; there is a second,
\* without the namespace, exactly when the first failed with an error the
\* predicate accepts; a fetch that succeeded is not answered with the
\* upstream error; a failed second fetch and a first failure the predicate
\* rejects are answered with the error, with no further call.
C10_OneRetryWithoutNamespace ==
    LET f == Fetches
    IN  /\ Len(f) <= 2
        /\ (Len(f) >= 1 => f[1].ns)
        /\ (Len(f) = 2 => ~f[2].ns /\ f[1].result = "retryable")
        /\ (pc = "fetch2" <=> (Len(f) = 1 /\ f[1].result = "retryable"))
        /\ (pc = "done" /\ Len(f) >= 1 =>
               IF Last(f).result = "ok"
               THEN response.status # "error"
               ELSE /\ response.status = "error"
                    /\ Last(upstream_calls) = Last(f)
                    /\ ~Wired
                    /\ (Len(f) = 1 => f[1].result = "other"))

C10_Witness ==
    /\ pc = "done"
    /\ Len(Fetches) = 2
    /\ Fetches[2].result = "ok"
    /\ response.status = "ok"
    /\ kind = "manifest"

\* The persistence task has ended and, unless the store itself failed the
\* PUT, it received every chunk and the complete object is at the key.
Persisted ==
    /\ bpc = "done"
    /\ (~store_fault =>
           /\ write_result = "ok"
           /\ ItemBytes(recv["B"]) = UpstreamBytes
           /\ store = Object(UpstreamBytes, 0))

\* C5: with a clean stream whose digest matches, once the client has
\* disconnected (at any point) the producer still runs to its end and the
\* persistence still receives every chunk and stores the complete object,
\* unless the store itself fails the PUT.
C5_DisconnectLeavesPersistence ==
    (astate = "disconnected" /\ CleanStream /\ ~Corrupt)
        ~> (Persisted /\ ppc = "done")

C5_Witness ==
    /\ astate = "disconnected" /\ CleanStream /\ ~Corrupt
    /\ Len(fetched.chunks) >= 2
    /\ Len(recv["A"]) = 1
    /\ bpc = "done" /\ write_result = "ok"
    /\ store.bytes = UpstreamBytes

\* C6 as claimed: with a clean stream whose digest matches, the persistence
\* ends with every chunk received, whatever the response body does.
C6_PersistenceWhateverClientPace ==
    (CleanStream /\ ~Corrupt) ~> Persisted

\* The response body is alive and is owed all 16 messages of a full channel.
ClientHoldsChannelFull ==
    /\ astate = "streaming"
    /\ Len(chan.queue) = 16
    /\ rxpos["A"] = chan.head_pos

\* C6 as amended: the persistence ends with every chunk received, or the
\* response body, still alive, leaves the 16 messages of a full channel
\* unreceived (and the producer can publish no more).
C6_PersistenceUnlessChannelHeldFull ==
    (CleanStream /\ ~Corrupt) ~> (Persisted \/ ClientHoldsChannelFull)

C6_Witness ==
    /\ CleanStream /\ ~Corrupt
    /\ astate = "streaming" /\ recv["A"] = <<>>
    /\ Len(fetched.chunks) >= 2
    /\ bpc = "done" /\ write_result = "ok"
    /\ store.bytes = UpstreamBytes

\* An upstream fetch of the request succeeded.
FetchedUpstream ==
    \E i \in 1..Len(upstream_calls) :
        upstream_calls[i].op = "fetch" /\ upstream_calls[i].result = "ok"

\* What a successful write of the request leaves at the key: the
\* serialized fetched manifest, or the fetched blob's bytes.
FreshContent ==
    IF kind = "manifest" THEN ToVec(manifest_val)
    ELSE Take(UpstreamBytes, fetched.len)

\* The request's repo.write has returned Ok.
WriteSucceeded ==
    write_result = "ok" /\ (kind = "blob" => bpc = "done")

\* C11: a cache probe that found an object older than the invalidation time
\* is handled as one that found no object: no hit is counted, the miss is
\* counted once, a response of 200 comes from a successful upstream fetch
\* (for a manifest it is the fetched manifest), and a successful write
\* leaves the fetched content at the key, last modified now, in place of the
\* stale object.
C11_StaleHandledAsAbsent ==
    cache_read \in {"too_old", "not_found"} =>
        /\ hits = 0
        /\ misses = (IF pc = "miss" THEN 0 ELSE 1)
        /\ (response.status = "ok" => FetchedUpstream)
        /\ (kind = "manifest" /\ response.status = "ok"
                => response = manifest_response(manifest_val))
        /\ (WriteSucceeded => store = Object(FreshContent, 0))

C11_Witness ==
    /\ cache_read = "too_old"
    /\ pc = "done" /\ response.status = "ok"
    /\ WriteSucceeded
    /\ store = Object(FreshContent, 0)

\* The manifest handler has fetched the manifest and its write-back has
\* been issued and is not yet answered.
WriteInFlight == kind = "manifest" /\ pc = "writing"

\* C12: on a manifest miss with a successful fetch the handler returns 200
\* with the fetched manifest whatever the write-back does: also while the
\* write has not completed, the response is the fetched manifest.
C12_ResponseDoesNotWaitForWrite ==
    WriteInFlight => response = manifest_response(manifest_val)

\* The state of a request that has done nothing yet.
Untouched ==
    /\ peer = NoPeer
    /\ namespace = NoPath
    /\ upstream_image = NoPath
    /\ storage_path = NoPath
    /\ cache_read = "none"
    /\ response = NoReply
    /\ hits = 0
    /\ misses = 0
    /\ upstream_calls = <<>>
    /\ fetched = NoResponse
    /\ manifest_val = NoManifest
    /\ ppc = "idle"
    /\ upos = 0
    /\ hasher = HasherNew
    /\ pending = NoItem
    /\ published = <<>>
    /\ chan = NoChan
    /\ rxpos = [c \in Consumers |-> 0]
    /\ recv = [c \in Consumers |-> <<>>]
    /\ astate = "none"
    /\ bpc = "idle"
    /\ write_result = "none"
    /\ store_fault = FALSE
    /\ delete_result = "none"
    /\ deletes = 0

\* ------------------------------------------------- DELETE, then the next GET
\* A DELETE of a blob whose object is at the key, followed by a GET for the
\* same digest.
InitDelete ==
    /\ kind = "blob"
    /\ digest \in {DigestString(d) : d \in WantedDigests}
    /\ wanted_digest = NoDigest
    /\ store \in {Object(bs, a) : bs \in InitialBytes("blob"), a \in 0..MaxAge}
    /\ pc = "delete_blob"
    /\ req = [image |-> <<"a", "/", "b">>, reference |-> <<>>]
    /\ qstr_ns = None
    /\ default_ns = <<"a">>
    /\ Untouched

\* api.rs:258-262  delete_blob: repo.delete at the digest's storage path;
\* its error is returned, its success answered with an empty 200.
delete_blob ==
    /\ pc = "delete_blob"
    /\ pc' = "deleted"
    /\ deletes' = deletes + 1
    /\ \/ /\ delete_result' = "ok"
          /\ store' = DeleteObject(store)
          /\ response' = [NoReply EXCEPT !.status = "ok"]
       \/ /\ delete_result' = "err"
          /\ store' = store
          /\ response' = ErrorReply("error")
    /\ UNCHANGED <<kind, digest, wanted_digest, cache_read, hits, misses, upstream_calls,
                   fetched, manifest_val, ppc, upos, hasher, pending, published,
                   chan, rxpos, recv, astate, bpc, write_result, store_fault>>
    /\ storage_path' =
          BlobRequest_storage_path([image |-> req.image, digest |-> digest])
    /\ UNCHANGED <<req, qstr_ns, default_ns, namespace, upstream_image, peer>>

\* api.rs:149  the next request, a GET for the same digest, enters blob().
NextGet ==
    /\ pc = "deleted"
    /\ pc' = "digest"
    /\ response' = NoReply
    /\ UNCHANGED <<kind, digest, wanted_digest, cache_read, hits, misses, upstream_calls,
                   fetched, manifest_val, fvars, store>>
    /\ UNCHANGED <<pvars, peer>>

NextDelete ==
    \/ delete_blob
    \/ NextGet
    \/ HandlerStep

DeleteSpec == InitDelete /\ [][NextDelete]_vars

\* The GET has contacted the upstream registry.
UpstreamContacted == upstream_calls # <<>>

\* The DELETE was answered with 200 and the GET that follows it is running
\* or has returned.
GetAfterDelete == delete_result = "ok" /\ pc \notin {"delete_blob", "deleted"}

\* C13: the object was at the key before the DELETE; after the DELETE has
\* returned 200, the next GET for the digest is never a hit: its probe finds
\* nothing, it counts the miss, and it goes upstream (every answer that is
\* not a failed pool lookup comes after an upstream call).
C13_DeleteThenGetMisses ==
    GetAfterDelete =>
        /\ hits = 0
        /\ cache_read \in {"none", "not_found"}
        /\ (cache_read = "not_found" /\ pc # "miss" => misses = 1)
        /\ (pc \in {"fetch1", "fetch2", "wire"} => UpstreamContacted)
        /\ (pc = "done" /\ response.status # "error" => UpstreamContacted)

C13_Witness ==
    /\ GetAfterDelete
    /\ pc = "done" /\ response.status = "ok"
    /\ cache_read = "not_found" /\ misses = 1 /\ hits = 0
    /\ FetchedUpstream

\* The request has made no I/O and has left no trace: no cache probe, no
\* counter, no upstream call, no fan-out, no write, no delete.
NoIO ==
    /\ cache_read = "none"
    /\ hits = 0 /\ misses = 0
    /\ upstream_calls = <<>>
    /\ fetched = NoResponse
    /\ ~Wired /\ chan = NoChan /\ bpc = "idle" /\ astate = "none"
    /\ write_result = "none" /\ delete_result = "none" /\ deletes = 0

\* C14: a blob GET whose digest string fails the check is answered with
\* InvalidDigest and nothing else: the answer is the one step the handler
\* takes, straight from the digest check, the object at the key is what it
\* was, and in the state of the answer no I/O of the request has happened.
C14_InvalidDigestBeforeIO ==
    /\ [](kind = "blob" /\ ~DigestAccepted(digest) /\ pc # "digest"
            => response.status = "InvalidDigest")
    /\ [](response.status = "InvalidDigest" => pc = "done" /\ NoIO)
    /\ [][response'.status = "InvalidDigest"
            => pc = "digest" /\ store' = store]_vars

C14_Witness ==
    /\ kind = "blob" /\ ~DigestAccepted(digest)
    /\ response.status = "InvalidDigest" /\ pc = "done"
    /\ store.present

\* ------------------------------------------------------- the digest check
\* The characters the hex part of a checked digest string is made of: a
\* digit, a lowercase and an uppercase hexadecimal letter, and a letter that
\* is no hexadecimal digit.
SampleChars == {"0", "a", "F", "g"}

\* Hex parts up to one character longer than the digest buffer takes.
HexInputs == UNION {[1..n -> SampleChars] : n \in 0..(2 * DigestSize + 1)}

\* What comes before the hex part: the prefix, the prefix without its
\* colon, the prefix in capitals, nothing.
Prefixes ==
    {Sha256Prefix,
     <<"s", "h", "a", "2", "5", "6">>,
     <<"S", "H", "A", "2", "5", "6", ":">>,
     <<>>}

DigestInputs == {p \o h : p \in Prefixes, h \in HexInputs}

\* A blob GET for any of the digest strings, at its digest check.
InitDigest ==
    /\ kind = "blob"
    /\ digest \in DigestInputs
    /\ wanted_digest = NoDigest
    /\ store = NoObject
    /\ pc = "digest"
    /\ req = [image |-> <<"a", "/", "b">>, reference |-> <<>>]
    /\ qstr_ns = None
    /\ default_ns = <<"a">>
    /\ Untouched

NextDigest == ValidateDigest

DigestSpec == InitDigest /\ [][NextDigest]_vars

\* The form the digest string is specified to have: "sha256:" followed by
\* two lowercase hexadecimal characters for each byte of the digest.
LowercaseSha256(d) ==
    /\ Len(d) = Len(Sha256Prefix) + 2 * DigestSize
    /\ SubSeq(d, 1, Len(Sha256Prefix)) = Sha256Prefix
    /\ \A i \in (Len(Sha256Prefix) + 1)..Len(d) :
          \E j \in 1..16 : HexDigits[j] = d[i]

\* C15: the digest check accepts a digest string if and only if it is
\* "sha256:" followed by lowercase hexadecimal characters of the digest's
\* length; every other string is answered with InvalidDigest.
C15_AcceptsExactlyLowercaseSha256 ==
    pc # "digest" =>
        (response.status # "InvalidDigest" <=> LowercaseSha256(digest))

\* ------------------------------------------------------- the blob cache key
\* Digest strings of blob requests: those followed through the handler, one
\* written in capitals, one without a colon, one with an empty hash.
PathDigests ==
    RequestDigests \cup
    {Sha256Prefix \o [i \in 1..(2 * DigestSize) |-> "A"], <<"0", "0">>, Sha256Prefix}

\* A GET or a DELETE of a blob, for any image path, namespace parameter,
\* default namespace and digest string.
InitBlobPath ==
    /\ kind = "blob"
    /\ digest \in PathDigests
    /\ wanted_digest = NoDigest
    /\ store = Object(<<1, 1>>, 0)
    /\ pc \in {"digest", "delete_blob"}
    /\ req \in {[image |-> i, reference |-> <<>>] : i \in ImageNames}
    /\ qstr_ns \in NsOptions
    /\ default_ns \in NsNames
    /\ Untouched

NextBlobPath ==
    \/ ValidateDigest
    \/ delete_blob

BlobPathSpec == InitBlobPath /\ [][NextBlobPath]_vars

\* The key blobs/<algorithm>/<first 2 hex chars>/<remaining hex chars> of a
\* digest string <algorithm>:<hex>.
BlobKey(algorithm, hex) ==
    BlobsDir \o <<"/">> \o algorithm \o <<"/">> \o SubSeq(hex, 1, 2)
        \o <<"/">> \o SubSeq(hex, 3, Len(hex))

\* C16: the storage path a blob GET or DELETE computed is the one computed
\* for the same digest under every other image path, whatever the namespace
\* parameter and the default namespace of the request; for a digest the GET
\* accepts it is blobs/sha256/<first 2 hex chars>/<remaining hex chars>.
C16_BlobKeyFromDigestOnly ==
    storage_path # NoPath =>
        /\ \A i \in ImageNames :
              BlobRequest_storage_path([image |-> i, digest |-> digest])
                  = storage_path
        /\ (DigestAccepted(digest) =>
              storage_path =
                  BlobKey(<<"s", "h", "a", "2", "5", "6">>,
                          StripPrefix(digest, Sha256Prefix).rest))

C16_Witness ==
    /\ pc = "start" /\ DigestAccepted(digest)
    /\ qstr_ns.some /\ Contains(req.image, "/")
    /\ namespace # default_ns
    /\ storage_path =
          BlobKey(<<"s", "h", "a", "2", "5", "6">>,
                  StripPrefix(digest, Sha256Prefix).rest)

\* --------------------------------------------------- the manifest cache key
\* api.rs:251-256  delete_manifest: the namespace is resolved, the storage
\* path computed and repo.delete called; its error is returned, its success
\* answered with an empty 200.
delete_manifest ==
    /\ pc = "delete_manifest"
    /\ pc' = "deleted"
    /\ namespace' = split_image(qstr_ns, req.image, default_ns).namespace
    /\ upstream_image' = split_image(qstr_ns, req.image, default_ns).image
    /\ storage_path' =
          ManifestRequest_storage_path(
              req, split_image(qstr_ns, req.image, default_ns).namespace)
    /\ deletes' = deletes + 1
    /\ \/ /\ delete_result' = "ok"
          /\ store' = DeleteObject(store)
          /\ response' = [NoReply EXCEPT !.status = "ok"]
       \/ /\ delete_result' = "err"
          /\ store' = store
          /\ response' = ErrorReply("error")
    /\ UNCHANGED <<kind, digest, wanted_digest, cache_read, hits, misses,
                   upstream_calls, fetched, manifest_val, ppc, upos, hasher,
                   pending, published, chan, rxpos, recv, astate, bpc,
                   write_result, store_fault, req, qstr_ns, default_ns, peer>>

\* A GET or a DELETE of a manifest, for any image string, reference,
\* namespace parameter and default namespace.
InitManifestPath ==
    /\ kind = "manifest"
    /\ digest = <<>>
    /\ wanted_digest = NoDigest
    /\ store = NoObject
    /\ pc \in {"start", "delete_manifest"}
    /\ req \in {[image |-> i, reference |-> r] :
                   i \in ImageStrings, r \in References}
    /\ qstr_ns \in NsOptions
    /\ default_ns \in NsNames
    /\ Untouched

NextManifestPath ==
    \/ Lookup
    \/ delete_manifest

ManifestPathSpec == InitManifestPath /\ [][NextManifestPath]_vars

\* manifests/<image>/<reference>
KeyWithoutNamespace == ManifestsDir \o <<"/">> \o req.image \o <<"/">> \o req.reference

\* manifests/<namespace>/<image>/<reference>
KeyWithNamespace ==
    ManifestsDir \o <<"/">> \o namespace \o <<"/">> \o req.image
        \o <<"/">> \o req.reference

\* The first '/'-separated segment of the request's image path.
LeadingSegment ==
    IF \E i \in 1..Len(req.image) : req.image[i] = "/"
    THEN SubSeq(req.image, 1,
                (CHOOSE i \in 1..Len(req.image) :
                    req.image[i] = "/" /\ \A j \in 1..(i - 1) : req.image[j] # "/") - 1)
    ELSE req.image

\* C17: the manifest key a GET or DELETE computed is
\* manifests/<image>/<reference> exactly when the first segment of the
\* request's image path is the resolved namespace; else it is
\* manifests/<namespace>/<image>/<reference>, where the namespace is not
\* followed by itself.
C17_ManifestKeyElidesNamespace ==
    storage_path # NoPath =>
        /\ (storage_path = KeyWithoutNamespace <=> LeadingSegment = namespace)
        /\ (LeadingSegment # namespace =>
              /\ storage_path = KeyWithNamespace
              /\ ~IsPrefix(ManifestsDir \o <<"/">> \o namespace \o <<"/">>
                              \o namespace \o <<"/">>, storage_path))

C17_Witness ==
    /\ pc = "read"
    /\ ~qstr_ns.some /\ namespace # default_ns
    /\ LeadingSegment = namespace
    /\ storage_path = KeyWithoutNamespace

\* The number of '/' in a string.
Slashes(s) == Cardinality({i \in 1..Len(s) : s[i] = "/"})

\* The position of the first '/' of a string that has one.
FirstSlash(s) == CHOOSE i \in 1..Len(s) : s[i] = "/" /\ \A j \in 1..(i - 1) : s[j] # "/"

\* The pair the resolver is specified to return.
SplitReference ==
    IF qstr_ns.some THEN <<qstr_ns.v, req.image>>
    ELSE IF Slashes(req.image) >= 2
    THEN <<SubSeq(req.image, 1, FirstSlash(req.image) - 1),
           SubSeq(req.image, FirstSlash(req.image) + 1, Len(req.image))>>
    ELSE <<default_ns, req.image>>

\* C18: for every namespace parameter, image string and default namespace,
\* split_image returns the pair of the reference: (ns, image) for an explicit
\* ns; without one, the segment before the first '/' and the remainder if
\* the image has two or more '/', and (default_ns, image) if it has fewer.
C18_SplitImageReference ==
    pc \notin {"start", "delete_manifest"} =>
        <<namespace, upstream_image>> = SplitReference

C18_Witness ==
    /\ pc = "deleted"
    /\ ~qstr_ns.some /\ Slashes(req.image) = 1
    /\ <<namespace, upstream_image>> = <<default_ns, req.image>>

\* What a manifest request with image path i, reference r and namespace
\* parameter n fetches upstream, under this gateway's default namespace.
Resolved(i, r, n) ==
    <<split_image(n, i, default_ns).namespace,
      split_image(n, i, default_ns).image, r>>

\* The key of that request.
KeyOf(i, r, n) ==
    ManifestRequest_storage_path([image |-> i, reference |-> r],
                                 split_image(n, i, default_ns).namespace)

\* C20: the key a manifest GET probes is the key of no manifest
\* request that resolves to another (namespace, upstream image, reference):
\* for image paths of non-empty segments, every reference and every
\* namespace parameter.
C20_ManifestKeyInjective ==
    (pc = "read" /\ req.image \in ImageNames) =>
        \A i \in ImageNames, r \in References, n \in NsOptions :
            Resolved(i, r, n) # <<namespace, upstream_image, req.reference>>
                => KeyOf(i, r, n) # storage_path

\* ------------------------------------- two requests for one digest, one key
\* The content the digest of the two requests names.
PeerContent == <<0, 1>>

\* Two blob GETs for one digest met an empty key.  This request has fetched
\* its upstream response (a short one) and is about to wire its fan-out;
\* the other one has spawned its persistence task (api.rs:224-235), which
\* writes to the same key, the storage path being made of the digest alone.
InitRace ==
    /\ kind = "blob"
    /\ digest = DigestString(Sha256(PeerContent))
    /\ wanted_digest = DecodedDigest(DigestString(Sha256(PeerContent)))
    /\ req = [image |-> <<"a", "/", "b">>, reference |-> <<>>]
    /\ qstr_ns = None
    /\ default_ns = <<"a">>
    /\ namespace = split_image(None, <<"a", "/", "b">>, <<"a">>).namespace
    /\ upstream_image = split_image(None, <<"a", "/", "b">>, <<"a">>).image
    /\ storage_path =
          BlobRequest_storage_path([image |-> <<"a", "/", "b">>,
                                    digest |-> DigestString(Sha256(PeerContent))])
    /\ cache_read = "not_found"
    /\ store = NoObject
    /\ pc = "wire"
    /\ response = NoReply
    /\ hits = 0
    /\ misses = 1
    /\ upstream_calls = <<Call("authenticate", FALSE, "ok"), Call("fetch", TRUE, "ok")>>
    /\ fetched \in {r \in BlobResponses : Len(r.chunks) <= MaxBytes}
    /\ manifest_val = NoManifest
    /\ ppc = "idle"
    /\ upos = 0
    /\ hasher = HasherNew
    /\ pending = NoItem
    /\ published = <<>>
    /\ chan = NoChan
    /\ rxpos = [c \in Consumers |-> 0]
    /\ recv = [c \in Consumers |-> <<>>]
    /\ astate = "none"
    /\ bpc = "idle"
    /\ write_result = "none"
    /\ store_fault = FALSE
    /\ delete_result = "none"
    /\ deletes = 0
    /\ peer = [NoPeer EXCEPT !.bpc = "write"]

\* api.rs:228 in the other request: its repo.write returns.  On Ok the
\* object is stored; on an error the key keeps what it had or is left with
\* part of the body, and the task goes on to its delete.
PeerWrite ==
    /\ peer.bpc = "write"
    /\ \/ /\ peer' = [peer EXCEPT !.bpc = AfterWrite("ok"), !.write_result = "ok"]
          /\ store' = PutObject(store, PeerContent)
       \/ /\ peer' = [peer EXCEPT !.bpc = AfterWrite("err"), !.write_result = "err"]
          /\ \E partial \in BOOLEAN :
               store' = IF partial THEN Object(Take(PeerContent, 1), 0) ELSE store
    /\ UNCHANGED <<hvars, fvars, pvars>>

\* api.rs:230-232 in the other request: its repo.delete.
PeerDelete ==
    /\ peer.bpc = "delete"
    /\ \/ /\ peer' = [peer EXCEPT !.bpc = "done", !.delete_result = "ok"]
          /\ store' = DeleteObject(store)
       \/ /\ peer' = [peer EXCEPT !.bpc = "done", !.delete_result = "err"]
          /\ store' = store
    /\ UNCHANGED <<hvars, fvars, pvars>>

NextRace ==
    \/ Wire
    \/ ProducerStep
    \/ PersistStep
    \/ APoll
    \/ ADisconnect
    \/ BPutAbort
    \/ PeerWrite
    \/ PeerDelete

RaceSpec == InitRace /\ [][NextRace]_vars

\* Both requests' pipelines have ended.
BothDone == PipelineDone /\ peer.bpc = "done"

\* C19: two concurrent GETs missed for one digest; this request's upstream
\* stream was clean and matched the digest, and no delete failed.  Once both
\* pipelines have ended, if either request's write succeeded, the object is
\* at the key and its content has the digest: no compensating delete took
\* away what the other request had persisted.
C19_DeleteSparesPeerObject ==
    (/\ BothDone /\ CleanStream /\ ~Corrupt
     /\ delete_result # "err" /\ peer.delete_result # "err"
     /\ (write_result = "ok" \/ peer.write_result = "ok"))
        => store.present /\ Sha256(store.bytes) = wanted_digest

====
